---- MODULE Spec2Model ----
(***************************************************************************)
(* Model of lambda_function.py (ajorg/cros-updates): the update-check      *)
(* protocol client (request_update, UpdateResponse) and the                *)
(* change-detection loop of lambda_handler.                                *)
(*                                                                         *)
(* Strings are sequences of one-character strings, so that formatting,     *)
(* splitting and parsing are computed and not assumed.  Python dicts       *)
(* (catalog entries, DynamoDB items, XML attribute maps) are functions     *)
(* whose DOMAIN is the set of keys that are present.                       *)
(***************************************************************************)
EXTENDS Integers, Sequences, FiniteSets, TLC

\* ------------------------------------------------------------------ bounds
\* number of invocations of lambda_handler that are followed
MaxInvocations == 3
\* largest number of action elements in a response
MaxActions == 2
\* largest number of updatecheck elements in a response
MaxUpdateChecks == 1
\* largest day-count tried on UpdateResponse.eol alone (besides 19000)
MaxDayCount == 3

\* ------------------------------------------------------- Python primitives
\* the None object; no string equals it
None == <<"<None>">>

\* str(x) as used by f-strings: None prints as the four letters "None"
Str(x) == IF x = None THEN <<"N","o","n","e">> ELSE x

EmptyDict == [k \in {} |-> None]

\* dict.get(k) with the default None
Get(d, k) == IF k \in DOMAIN d THEN d[k] ELSE None

\* d[k] = v
SetItem(d, k, v) == [x \in (DOMAIN d) \cup {k} |-> IF x = k THEN v ELSE d[x]]

\* {k: v for k, v in d.items() if k in keys}
Restrict(d, keys) == [k \in (DOMAIN d) \cap keys |-> d[k]]

UPPER == <<"A","B","C","D","E","F","G","H","I","J","K","L","M","N","O","P","Q","R","S","T","U","V","W","X","Y","Z">>
LOWER == <<"a","b","c","d","e","f","g","h","i","j","k","l","m","n","o","p","q","r","s","t","u","v","w","x","y","z">>
DIGITS == <<"0","1","2","3","4","5","6","7","8","9">>

IndexIn(c, s) == IF \E i \in 1..Len(s) : s[i] = c
                 THEN CHOOSE i \in 1..Len(s) : s[i] = c
                 ELSE 0

LowerChar(c) == IF IndexIn(c, UPPER) > 0 THEN LOWER[IndexIn(c, UPPER)] ELSE c
UpperChar(c) == IF IndexIn(c, LOWER) > 0 THEN UPPER[IndexIn(c, LOWER)] ELSE c

\* str.lower()
Lower(s) == [i \in 1..Len(s) |-> LowerChar(s[i])]

\* str.capitalize(): first character upper-cased, the rest lower-cased
Capitalize(s) == [i \in 1..Len(s) |-> IF i = 1 THEN UpperChar(s[i]) ELSE LowerChar(s[i])]

IsSpace(c) == c = " "

\* str.split(): the whitespace-delimited tokens, none of them empty
RECURSIVE SplitFrom(_, _, _)
SplitFrom(s, i, cur) ==
    IF i > Len(s)
    THEN IF cur = <<>> THEN <<>> ELSE <<cur>>
    ELSE IF IsSpace(s[i])
         THEN (IF cur = <<>> THEN <<>> ELSE <<cur>>) \o SplitFrom(s, i + 1, <<>>)
         ELSE SplitFrom(s, i + 1, Append(cur, s[i]))

Split(s) == SplitFrom(s, 1, <<>>)

\* str.strip() for blanks
RECURSIVE LStrip(_)
LStrip(s) == IF s # <<>> /\ IsSpace(Head(s)) THEN LStrip(Tail(s)) ELSE s
RECURSIVE RStrip(_)
RStrip(s) == IF s # <<>> /\ IsSpace(s[Len(s)]) THEN RStrip(SubSeq(s, 1, Len(s) - 1)) ELSE s
Strip(s) == RStrip(LStrip(s))

IsDigits(s) == s # <<>> /\ \A i \in 1..Len(s) : IndexIn(s[i], DIGITS) > 0

RECURSIVE DigitsValue(_)
DigitsValue(s) == IF s = <<>> THEN 0
                  ELSE 10 * DigitsValue(SubSeq(s, 1, Len(s) - 1)) + (IndexIn(s[Len(s)], DIGITS) - 1)

\* int(s): blanks stripped, an optional sign, then decimal digits;
\* anything else raises ValueError
ParseInt(s) ==
    LET t == Strip(s)
        signed == t # <<>> /\ Head(t) \in {"-", "+"}
        body == IF signed THEN Tail(t) ELSE t
    IN  IF IsDigits(body)
        THEN [ok |-> TRUE, val |-> IF signed /\ Head(t) = "-" THEN 0 - DigitsValue(body) ELSE DigitsValue(body)]
        ELSE [ok |-> FALSE, val |-> 0]

\* str(n) for an integer n
RECURSIVE NatToStr(_)
NatToStr(n) == IF n < 10 THEN <<DIGITS[n + 1]>> ELSE NatToStr(n \div 10) \o <<DIGITS[(n % 10) + 1]>>
IntToStr(n) == IF n < 0 THEN <<"-">> \o NatToStr(0 - n) ELSE NatToStr(n)

IsPrefix(p, s) == Len(p) <= Len(s) /\ SubSeq(s, 1, Len(p)) = p
IsSuffix(p, s) == Len(p) <= Len(s) /\ SubSeq(s, Len(s) - Len(p) + 1, Len(s)) = p
Contains(s, p) == \E i \in 0..(Len(s) - Len(p)) : SubSeq(s, i + 1, i + Len(p)) = p

\* --------------------------------------------------------------- calendar
\* A date is the number of days between 1970-01-01 and it.
SECONDS_IN_DAY == 24 * 60 * 60

\* floor division, also for a negative dividend
FloorDiv(a, b) == IF a >= 0 THEN a \div b ELSE 0 - ((0 - a + b - 1) \div b)

\* date.fromtimestamp(ts): the calendar date of the instant ts on the local
\* clock, which runs utcoffset seconds ahead of UTC
FromTimestamp(ts, utcoffset) == FloorDiv(ts + utcoffset, SECONDS_IN_DAY)

\* year and month (1..12) of a date, proleptic Gregorian calendar
Civil(days) ==
    LET z   == days + 719468
        era == FloorDiv(z, 146097)
        doe == z - era * 146097
        yoe == (doe - (doe \div 1460) + (doe \div 36524) - (doe \div 146096)) \div 365
        doy == doe - (365 * yoe + (yoe \div 4) - (yoe \div 100))
        mp  == (5 * doy + 2) \div 153
        m   == IF mp < 10 THEN mp + 3 ELSE mp - 9
        y   == yoe + era * 400 + (IF m <= 2 THEN 1 ELSE 0)
    IN  [year |-> y, month |-> m, day |-> doy - ((153 * mp + 2) \div 5) + 1]

MonthNames == <<
    <<"J","a","n","u","a","r","y">>,
    <<"F","e","b","r","u","a","r","y">>,
    <<"M","a","r","c","h">>,
    <<"A","p","r","i","l">>,
    <<"M","a","y">>,
    <<"J","u","n","e">>,
    <<"J","u","l","y">>,
    <<"A","u","g","u","s","t">>,
    <<"S","e","p","t","e","m","b","e","r">>,
    <<"O","c","t","o","b","e","r">>,
    <<"N","o","v","e","m","b","e","r">>,
    <<"D","e","c","e","m","b","e","r">> >>

\* strftime("%b %y"): the abbreviated month and the year without its century
StrftimeBY_Abbreviated(d) ==
    SubSeq(MonthNames[Civil(d).month], 1, 3) \o <<" ">>
        \o SubSeq(IntToStr(Civil(d).year), 3, 4)

\* date.strftime("%B %Y"): the full month name and the year
StrftimeBY(d) == MonthNames[Civil(d).month] \o <<" ">> \o IntToStr(Civil(d).year)

\* ---------------------------------------------------------- configuration
VERSION_ATTRIB == "ChromeVersion"
EOL_ATTRIB == "_eol_date"
KeyAttrs == {"appid", "hardware_class"}
RequestFields == {"appid", "track", "board", "hardware_class"}

\* hours the local clock of the process is ahead of UTC when lambda_handler
\* runs: the clock of an AWS Lambda function is UTC
UtcOffsetHours == {0}

\* the default CHROMEBOOKS_JSON
DefaultKevin == [
    appid |-> <<"{","9","2","A","7","2","7","2","A","-","8","3","4","A","-","4","7","A","3","-","9","1","1","2","-","E","8","F","D","5","5","8","3","1","6","6","0","}">>,
    track |-> <<"s","t","a","b","l","e","-","c","h","a","n","n","e","l">>,
    board |-> <<"k","e","v","i","n","-","s","i","g","n","e","d","-","m","p","k","e","y","s">>,
    hardware_class |-> <<"K","E","V","I","N"," ","D","2","5","-","A","3","E","-","B","2","A","-","O","8","Y">> ]
DefaultReven == [
    appid |-> <<"{","C","9","2","4","E","0","C","4","-","A","F","8","0","-","4","B","6","B","-","A","6","F","0","-","D","D","7","5","E","D","B","C","C","3","7","C","}">>,
    track |-> <<"s","t","a","b","l","e","-","c","h","a","n","n","e","l">>,
    board |-> <<"r","e","v","e","n","-","s","i","g","n","e","d","-","m","p","-","v","2","k","e","y","s">>,
    hardware_class |-> <<"R","E","V","E","N","-","A","N","A","E"," ","A","6","A","-","A","7","I">> ]

\* a name of the recovery table, attached by the module-level lookup
RecoveryName == <<"S","a","m","s","u","n","g"," ","C","h","r","o","m","e","b","o","o","k"," ","P","l","u","s">>

\* the version strings the server reports
VersionStrings == { <<"1","0","0",".","0",".","1">>, <<"1","0","1",".","0",".","2">> }

\* the _eol_date attribute values the server sends
EolStrings == { <<"0">>, <<"1","9","0","0","0">>, <<"x">> }

\* ------------------------------------------------------------ the response
\* A response body is either not well-formed, or a tree of which the model
\* keeps the action elements and the updatecheck elements under the root,
\* each in document order, each as its attribute dict.
GarbageBody == [kind |-> "garbage"]

RECURSIVE SeqsUpTo(_, _)
SeqsUpTo(S, n) == IF n = 0 THEN {<<>>}
                  ELSE SeqsUpTo(S, n - 1) \cup {Append(q, e) : q \in {r \in SeqsUpTo(S, n - 1) : Len(r) = n - 1}, e \in S}

ActionElements == {EmptyDict} \cup {[ChromeVersion |-> v] : v \in VersionStrings}
UpdateCheckElements == {EmptyDict} \cup {[_eol_date |-> e] : e \in EolStrings}

XmlBodies == {[kind |-> "xml", actions |-> a, updatechecks |-> u] :
                a \in SeqsUpTo(ActionElements, MaxActions),
                u \in SeqsUpTo(UpdateCheckElements, MaxUpdateChecks)}

\* root.findall(".//tag[@attrib]"): the elements carrying the attribute
FindAll(elements, attrib) == SelectSeq(elements, LAMBDA e : attrib \in DOMAIN e)

\* UpdateResponse.__init__: ElementTree.fromstring raises ParseError on a
\* body that is not well-formed
UpdateResponse(data) ==
    IF data.kind = "xml" THEN [err |-> "", root |-> data]
    ELSE [err |-> "ParseError", root |-> data]

\* version returning the attribute of the last matching element
version_LastMatch(root) ==
    LET found == FindAll(root.actions, VERSION_ATTRIB)
    IN  IF found # <<>> THEN found[Len(found)][VERSION_ATTRIB] ELSE None

\* UpdateResponse.version: the attribute of the first matching element; a
\* loop that finds none falls off the end and returns None
version(root) ==
    LET found == FindAll(root.actions, VERSION_ATTRIB)
    IN  IF found # <<>> THEN found[1][VERSION_ATTRIB] ELSE None

\* eol with the ValueError of int() caught like the AttributeError
eol_ValueErrorCaught(root, utcoffset) ==
    LET found == FindAll(root.updatechecks, EOL_ATTRIB)
    IN  IF found = <<>> \/ ~ParseInt(found[1][EOL_ATTRIB]).ok THEN [kind |-> "None"]
        ELSE [kind |-> "date",
              date |-> FromTimestamp(ParseInt(found[1][EOL_ATTRIB]).val * SECONDS_IN_DAY, utcoffset)]

\* UpdateResponse.eol: None when no element matches (the AttributeError of
\* None.attrib is caught); int() of a matching attribute is outside the try,
\* so its ValueError propagates
eol(root, utcoffset) ==
    LET found == FindAll(root.updatechecks, EOL_ATTRIB)
    IN  IF found = <<>> THEN [kind |-> "None"]
        ELSE LET n == ParseInt(found[1][EOL_ATTRIB])
             IN  IF ~n.ok THEN [kind |-> "ValueError"]
                 ELSE [kind |-> "date", date |-> FromTimestamp(n.val * SECONDS_IN_DAY, utcoffset)]

\* The program looks at a parsed body through version and eol only, and eol
\* looks at the attribute of the first matching element only: one body of
\* each class of bodies that these two lookups cannot tell apart
EolAttribute(root) ==
    LET found == FindAll(root.updatechecks, EOL_ATTRIB)
    IN  IF found = <<>> THEN None ELSE found[1][EOL_ATTRIB]

SameLookups(a, b) == version(a) = version(b) /\ EolAttribute(a) = EolAttribute(b)

ServerBodies == {CHOOSE c \in XmlBodies : SameLookups(c, b) : b \in XmlBodies}

\* request_update answering a failed exchange with an empty response
request_update_FailureSwallowed(appid, track, board, hardware_class, env) ==
    IF env.net # "ok" \/ env.body.kind # "xml"
    THEN [err |-> "", root |-> [kind |-> "xml", actions |-> <<>>, updatechecks |-> <<>>]]
    ELSE UpdateResponse(env.body)

\* request_update: format the request, urlopen (raises URLError on a
\* transport failure), read, parse
request_update(appid, track, board, hardware_class, env) ==
    IF env.net # "ok" THEN [err |-> env.net, root |-> GarbageBody]
    ELSE UpdateResponse(env.body)

\* ---------------------------------------------------------------- the store
\* TABLE.get_item(Key=key): the items stored under the key (at most one)
GetItem(table, key) == {i \in table : Restrict(i, KeyAttrs) = key}

\* TABLE.put_item(Item=item): replaces the item stored under the same key
PutItem(table, item) ==
    {i \in table : Restrict(i, KeyAttrs) # Restrict(item, KeyAttrs)} \cup {item}

\* ------------------------------------------------------- one loop iteration
UPDATED_FROM == <<" ","u","p","d","a","t","e","d"," ","f","r","o","m"," ">>
TO == <<" ","t","o"," ">>
SUPPORTED_UNTIL == <<" ","a","n","d"," ","s","u","p","p","o","r","t","e","d"," ","u","n","t","i","l"," ">>

\* what the environment does to one iteration: the transport outcome, the
\* body the server answers, and whether TOPIC.publish and TABLE.put_item succeed
\* (put_item is only reached after a publish that succeeded)
Envs ==
    {[net |-> "URLError", body |-> GarbageBody, publishOk |-> TRUE, putOk |-> TRUE],
     [net |-> "ok", body |-> GarbageBody, publishOk |-> TRUE, putOk |-> TRUE]}
    \cup {[net |-> "ok", body |-> b, publishOk |-> c[1], putOk |-> c[2]] :
            b \in ServerBodies, c \in {<<TRUE, TRUE>>, <<FALSE, TRUE>>, <<TRUE, FALSE>>}}

Raise(s, e) == [s EXCEPT !.err = e]

\* the name derived from the whole hardware_class, not from its first token
ResolveName_WholeHardwareClass(chromebook) ==
    IF "name" \in DOMAIN chromebook THEN chromebook["name"]
    ELSE Capitalize(Lower(chromebook["hardware_class"]))

\* chromebook.get("name", chromebook["hardware_class"].split()[0].lower().capitalize())
\* the default is evaluated whether or not the name is present
ResolveName(chromebook) ==
    IF "name" \in DOMAIN chromebook THEN chromebook["name"]
    ELSE Capitalize(Lower(Split(chromebook["hardware_class"])[1]))

\* the message with the old and the new version exchanged
Message_VersionsSwapped(name, old_version, ver, e) ==
    name \o UPDATED_FROM \o Str(ver) \o TO \o Str(old_version)
         \o (IF e.kind = "date" THEN SUPPORTED_UNTIL \o StrftimeBY(e.date) ELSE <<>>)

\* f"{name} updated from {old_version} to {response.version}", and the
\* end-of-life clause when response.eol is true (every date is)
Message(name, old_version, ver, e) ==
    name \o UPDATED_FROM \o Str(old_version) \o TO \o Str(ver)
         \o (IF e.kind = "date" THEN SUPPORTED_UNTIL \o StrftimeBY(e.date) ELSE <<>>)

\* The body of the for loop of lambda_handler for one chromebook.  diag says
\* whether the print calls are there (they are, in the program).  The result
\* is the exception that ended the iteration ("" for none), the calls made to
\* the collaborators in order, the messages published, the items written, the
\* table and the catalog entry afterwards, and what the response held.
LoopBody(diag, chromebook, table, env, utcoffset) ==
    LET found   == GetItem(table, Restrict(chromebook, KeyAttrs))
        aliased == found = {}
        \* item.get("Item", chromebook): on a miss, item IS the catalog entry
        item    == IF aliased THEN chromebook ELSE CHOOSE i \in found : TRUE
        s0 == [err |-> "", ops |-> <<"get_item">>, messages |-> <<>>, puts |-> <<>>,
               table |-> table, chromebook |-> chromebook, response |-> [parsed |-> FALSE]]
    IN
    IF ~(RequestFields \subseteq DOMAIN chromebook) THEN Raise(s0, "KeyError")
    ELSE
    LET response == request_update(chromebook["appid"], chromebook["track"],
                                   chromebook["board"], chromebook["hardware_class"], env)
        s1 == [s0 EXCEPT !.ops = Append(@, "urlopen")]
    IN
    IF response.err # "" THEN Raise(s1, response.err)
    ELSE IF Split(chromebook["hardware_class"]) = <<>> THEN Raise(s1, "IndexError")
    ELSE
    LET name == ResolveName(chromebook)
        ver  == version(response.root)
        e    == eol(response.root, utcoffset)
        old_version == Get(item, "version")
        s2 == [s1 EXCEPT !.response = [parsed |-> TRUE, version |-> ver, eol |-> e]]
    IN
    \* print(json.dumps({"name": ..., "version": ..., "eol": str(response.eol)}))
    IF diag /\ e.kind = "ValueError" THEN Raise(s2, "ValueError")
    ELSE IF ver = old_version THEN s2
    \* if response.eol:
    ELSE IF e.kind = "ValueError" THEN Raise(s2, "ValueError")
    ELSE
    LET message == Message(name, old_version, ver, e)
        s3 == [s2 EXCEPT !.ops = Append(@, "publish")]
    IN
    IF ~env.publishOk THEN Raise(s3, "ClientError")
    ELSE
    LET newItem == SetItem(SetItem(item, "version", ver), "name", name)
        s4 == [s3 EXCEPT !.messages = Append(@, message),
                         !.chromebook = IF aliased THEN newItem ELSE @,
                         !.ops = Append(@, "put_item")]
    IN
    IF ~env.putOk THEN Raise(s4, "ClientError")
    ELSE [s4 EXCEPT !.puts = Append(@, newItem), !.table = PutItem(table, newItem)]

\* ------------------------------------------------------------------- state
VARIABLES
    config,       \* the catalog as loaded from CHROMEBOOKS_JSON and the recovery table
    CHROMEBOOKS,  \* the module-level catalog of the running process
    TABLE,        \* the items of the DynamoDB table
    utcoffset,    \* seconds the local clock of the process is ahead of UTC
    pc,           \* "idle", "running", "returned" or "raised"
    idx,          \* position of the for loop of lambda_handler
    attempted,    \* the devices whose iteration began in the current invocation
    last,         \* the iteration that just ended: its inputs and its result
    obs,          \* per device, how its previous iteration ended
    invocations,  \* number of invocations so far
    call          \* a property of UpdateResponse evaluated on its own: argument and result

vars == <<config, CHROMEBOOKS, TABLE, utcoffset, pc, idx, attempted, last, obs, invocations, call>>

\* the default CHROMEBOOKS_JSON lists two devices
DefaultCatalog == <<DefaultKevin, DefaultReven>>
NumDevices == Len(DefaultCatalog)
Devices == 1..NumDevices
NoCycle == [status |-> "none"]
NoCall == [fn |-> "none"]

\* the catalogs of the model: the default one; one whose first device got a
\* name from the recovery table and whose second device has an empty track;
\* one whose second device lacks the board field
Catalogs == {
    DefaultCatalog,
    <<SetItem(DefaultKevin, "name", RecoveryName), SetItem(DefaultReven, "track", <<>>)>>,
    <<DefaultKevin, Restrict(DefaultReven, {"appid", "track", "hardware_class"})>> }

Init ==
    /\ config \in Catalogs
    /\ CHROMEBOOKS = config
    /\ TABLE = {}
    /\ utcoffset \in {h * 3600 : h \in UtcOffsetHours}
    /\ pc = "idle"
    /\ idx = 0
    /\ attempted = {}
    /\ last = NoCycle
    /\ obs = [d \in Devices |-> NoCycle]
    /\ invocations = 0
    /\ call = NoCall

\* a new process imports the module: the catalog is loaded afresh
ColdStart ==
    /\ pc \in {"returned", "raised"}
    /\ CHROMEBOOKS # config
    /\ CHROMEBOOKS' = config
    /\ pc' = "idle"
    /\ last' = NoCycle
    /\ UNCHANGED <<config, TABLE, utcoffset, idx, attempted, obs, invocations, call>>

\* lambda_handler is entered
Invoke ==
    /\ pc # "running"
    /\ invocations < MaxInvocations
    /\ invocations' = invocations + 1
    /\ pc' = "running"
    /\ idx' = 1
    /\ attempted' = {}
    /\ last' = NoCycle
    /\ UNCHANGED <<config, CHROMEBOOKS, TABLE, utcoffset, obs, call>>

Outcome(out) == [err |-> out.err, messages |-> out.messages, puts |-> out.puts]

\* the body of the for loop for CHROMEBOOKS[idx]; an exception leaves
\* lambda_handler
Iterate ==
    /\ pc = "running"
    /\ last = NoCycle
    /\ idx <= NumDevices
    /\ \E env \in Envs :
        \E before \in {CHROMEBOOKS[idx]} :
        \E out \in {LoopBody(TRUE, before, TABLE, env, utcoffset)} :
            /\ CHROMEBOOKS' = [CHROMEBOOKS EXCEPT ![idx] = out.chromebook]
            /\ TABLE' = out.table
            /\ attempted' = attempted \cup {idx}
            /\ last' = [status |-> "done", dev |-> idx,
                        stored |-> GetItem(TABLE, Restrict(before, KeyAttrs)),
                        chromebook |-> before,
                        exchange |-> IF Len(out.ops) < 2 THEN "none"
                                     ELSE IF env.net # "ok" THEN env.net ELSE env.body.kind,
                        response |-> out.response,
                        updatechecks |-> IF out.response.parsed /\ env.body.kind = "xml"
                                         THEN env.body.updatechecks ELSE <<>>,
                        err |-> out.err, ops |-> out.ops,
                        messages |-> out.messages, puts |-> out.puts,
                        nodiag |-> Outcome(LoopBody(FALSE, before, TABLE, env, utcoffset)),
                        prev |-> obs[idx]]
            /\ obs' = [obs EXCEPT ![idx] =
                        IF out.err = "" THEN [status |-> "ok", version |-> out.response.version]
                        ELSE IF out.ops[Len(out.ops)] = "publish"
                        THEN [status |-> "publish failed", version |-> out.response.version]
                        ELSE [status |-> "error"]]
            /\ pc' = IF out.err = "" THEN "running" ELSE "raised"
    /\ UNCHANGED <<config, utcoffset, idx, invocations, call>>

\* the for statement takes the next chromebook
NextChromebook ==
    /\ pc = "running"
    /\ last # NoCycle
    /\ idx' = idx + 1
    /\ last' = NoCycle
    /\ UNCHANGED <<config, CHROMEBOOKS, TABLE, utcoffset, pc, attempted, obs, invocations, call>>

\* the loop is exhausted: lambda_handler returns
Return ==
    /\ pc = "running"
    /\ last = NoCycle
    /\ idx > NumDevices
    /\ pc' = "returned"
    /\ UNCHANGED <<config, CHROMEBOOKS, TABLE, utcoffset, idx, attempted, last, obs, invocations, call>>

Next == ColdStart \/ Invoke \/ Iterate \/ NextChromebook \/ Return

Spec == Init /\ [][Next]_vars

TypeOK ==
    /\ pc \in {"idle", "running", "returned", "raised"}
    /\ idx \in 0..(NumDevices + 1)
    /\ attempted \subseteq Devices

\* ------------------------------------------- UpdateResponse.eol on its own
\* Run as a script, the module evaluates response.eol on the clock of the
\* machine at hand: the offsets of the time zones of the world, in hours
WorldOffsetHours == (0 - 12)..14

\* bodies with one updatecheck element: no attribute, a day-count, or junk
EolBodies ==
    {[kind |-> "xml", actions |-> <<>>, updatechecks |-> <<u>>] :
        u \in {EmptyDict}
              \cup {[_eol_date |-> IntToStr(d)] : d \in 0..MaxDayCount}
              \cup {[_eol_date |-> e] : e \in EolStrings}}

InitEol ==
    /\ config = DefaultCatalog
    /\ CHROMEBOOKS = config
    /\ TABLE = {}
    /\ utcoffset \in {h * 3600 : h \in WorldOffsetHours}
    /\ pc = "idle"
    /\ idx = 0
    /\ attempted = {}
    /\ last = NoCycle
    /\ obs = [d \in Devices |-> NoCycle]
    /\ invocations = 0
    /\ call = NoCall

\* response.eol is evaluated on a parsed body
EvalEol ==
    /\ \E body \in EolBodies :
        call' = [fn |-> "eol", root |-> UpdateResponse(body).root,
                 result |-> eol(UpdateResponse(body).root, utcoffset)]
    /\ UNCHANGED <<config, CHROMEBOOKS, TABLE, utcoffset, pc, idx, attempted, last, obs, invocations>>

NextEol == EvalEol

SpecEol == InitEol /\ [][NextEol]_vars

\* --------------------------------------- UpdateResponse.version on its own
\* the bodies a server can send: well-formed ones and one that is not
ResponseBodies == XmlBodies \cup {GarbageBody}

InitVersion ==
    /\ config = DefaultCatalog
    /\ CHROMEBOOKS = config
    /\ TABLE = {}
    /\ utcoffset = 0
    /\ pc = "idle"
    /\ idx = 0
    /\ attempted = {}
    /\ last = NoCycle
    /\ obs = [d \in Devices |-> NoCycle]
    /\ invocations = 0
    /\ call = NoCall

\* UpdateResponse(data) is constructed from a body
Construct ==
    /\ call = NoCall
    /\ \E data \in ResponseBodies :
        call' = [fn |-> "UpdateResponse", data |-> data, result |-> UpdateResponse(data)]
    /\ UNCHANGED <<config, CHROMEBOOKS, TABLE, utcoffset, pc, idx, attempted, last, obs, invocations>>

\* response.version is evaluated on the object constructed
EvalVersion ==
    /\ call.fn = "UpdateResponse"
    /\ call.result.err = ""
    /\ call' = [fn |-> "version", root |-> call.result.root,
                result |-> version(call.result.root)]
    /\ UNCHANGED <<config, CHROMEBOOKS, TABLE, utcoffset, pc, idx, attempted, last, obs, invocations>>

NextVersion == Construct \/ EvalVersion

SpecVersion == InitVersion /\ [][NextVersion]_vars

\* ------------------------------------------------------------- the claims
\* an iteration of the loop has just ended (normally or by an exception)
Done == last.status = "done"

\* the version persisted for the device before the iteration; a missing
\* record, like a record without version, counts as absent
PriorVersion ==
    IF last.stored = {} THEN None ELSE Get(CHOOSE i \in last.stored : TRUE, "version")

Observed == last.response.version
IsConcrete(v) == v # None
Count(ops, o) == Len(SelectSeq(ops, LAMBDA x : x = o))
Position(ops, o) == IndexIn(o, ops)
UPDATED_TO == <<" ","u","p","d","a","t","e","d"," ","t","o"," ">>
FROM == <<" ","f","r","o","m"," ">>

\* C1: when the exchange of one device raises a transport or malformed
\* response error, every other device of the catalog still has its iteration
\* carried out in the same invocation.
C1_PerDeviceIsolation ==
    (pc = "raised" /\ Done /\ last.err \in {"URLError", "ParseError"})
        => \A d \in Devices \ {last.dev} : d \in attempted

\* C2: when the server reports the same version in two consecutive cycles of
\* a device that both complete without error, the second cycle publishes
\* nothing and writes nothing.
C2_Idempotence ==
    (Done /\ last.err = "" /\ last.prev.status = "ok" /\ last.prev.version = Observed)
        => /\ last.messages = <<>>
           /\ last.puts = <<>>
           /\ Count(last.ops, "publish") = 0
           /\ Count(last.ops, "put_item") = 0

\* C3: with no persisted state for the device and a version returned, the
\* message published is "{name} updated to {version}" (possibly followed by
\* the end-of-life clause), has no "from" clause, and the state is written.
C3_FirstObservation ==
    (Done /\ last.err = "" /\ last.stored = {} /\ IsConcrete(Observed))
        => /\ Len(last.messages) = 1
           /\ IsPrefix(ResolveName(last.chromebook) \o UPDATED_TO \o Observed, last.messages[1])
           /\ ~Contains(last.messages[1], FROM)
           /\ Len(last.puts) = 1
           /\ Restrict(last.puts[1], KeyAttrs) = Restrict(last.chromebook, KeyAttrs)

\* C4: with a prior version v1 persisted and a version v2 # v1 returned, a
\* cycle publishes at most one message; a cycle that completes publishes
\* exactly one, "{name} updated from v1 to v2" (possibly followed by the
\* end-of-life clause), and after it writes one record under the key of the
\* device with version v2 and the resolved name.
C4_ChangeDetection ==
    (Done /\ last.response.parsed /\ IsConcrete(PriorVersion) /\ IsConcrete(Observed)
          /\ PriorVersion # Observed)
        => /\ Len(last.messages) <= 1
           /\ Len(last.puts) <= 1
           /\ last.err = "" =>
                /\ Len(last.messages) = 1
                /\ IsPrefix(ResolveName(last.chromebook) \o UPDATED_FROM \o PriorVersion
                                \o TO \o Observed, last.messages[1])
                /\ Len(last.puts) = 1
                /\ Restrict(last.puts[1], KeyAttrs) = Restrict(last.chromebook, KeyAttrs)
                /\ last.puts[1]["version"] = Observed
                /\ last.puts[1]["name"] = ResolveName(last.chromebook)
                /\ GetItem(TABLE, Restrict(last.chromebook, KeyAttrs)) = {last.puts[1]}
                /\ Count(last.ops, "publish") = 1
                /\ Position(last.ops, "publish") < Position(last.ops, "put_item")

C4_Witness ==
    /\ Done /\ last.err = "" /\ IsConcrete(PriorVersion) /\ IsConcrete(Observed)
    /\ PriorVersion # Observed
    /\ Len(last.messages) = 1 /\ Len(last.puts) = 1

\* C5: an absent version differs from any prior concrete version (the change
\* is announced and recorded); with no prior state a notification is
\* published only for a non-absent version; absent after absent publishes
\* nothing and writes nothing.
C5_MissingVersion ==
    (Done /\ last.err = "" /\ ~IsConcrete(Observed))
        => /\ IsConcrete(PriorVersion) => (Len(last.messages) = 1 /\ Len(last.puts) = 1)
           /\ last.stored = {} => last.messages = <<>>
           /\ ~IsConcrete(PriorVersion) => (last.messages = <<>> /\ last.puts = <<>>)

\* C6: every cycle reads the store exactly once and before the exchange,
\* writes it at most once and only when the observed version differs from
\* the prior persisted version, and never deletes a record.
C6_StoreLifecycle ==
    Done
        => /\ Count(last.ops, "get_item") = 1
           /\ last.ops[1] = "get_item"
           /\ Count(last.ops, "put_item") <= 1
           /\ Len(last.puts) = 1 => Observed # PriorVersion
           /\ last.stored # {} => GetItem(TABLE, Restrict(last.chromebook, KeyAttrs)) # {}

\* C7: a device descriptor with a required field absent or empty ends its
\* cycle in an error before any exchange, publish or write.
C7_MissingFieldFailFast ==
    (Done /\ \E f \in RequestFields : Get(last.chromebook, f) \in {None, <<>>})
        => /\ last.err # ""
           /\ Count(last.ops, "urlopen") = 0
           /\ Count(last.ops, "publish") = 0
           /\ Count(last.ops, "put_item") = 0

\* C8: for every day-count D and every time zone of the process, eol is the
\* date D days after 1970-01-01.
C8_EolIsDaysAfterEpoch ==
    (call.fn = "eol" /\ call.result.kind = "date")
        => call.result.date = ParseInt(call.root.updatechecks[1][EOL_ATTRIB]).val

\* C9: the outcome of a cycle (error, messages published, records written)
\* is the outcome of the same cycle without the diagnostic records.
C9_DiagnosticsDoNotAlterOutcome ==
    Done => [err |-> last.err, messages |-> last.messages, puts |-> last.puts] = last.nodiag

\* C10: without an updatecheck element carrying _eol_date, eol is absent and
\* raises nothing; with the attribute present and not an integer the cycle
\* ends in an error, nothing is published and nothing is written.
C10_EolExtraction ==
    (Done /\ last.response.parsed)
        => LET carrying == FindAll(last.updatechecks, EOL_ATTRIB)
           IN  /\ carrying = <<>> =>
                    (last.response.eol.kind = "None" /\ last.err # "ValueError")
               /\ (carrying # <<>> /\ ~ParseInt(carrying[1][EOL_ATTRIB]).ok) =>
                    /\ last.err # ""
                    /\ last.messages = <<>>
                    /\ last.puts = <<>>
                    /\ Count(last.ops, "publish") = 0
                    /\ Count(last.ops, "put_item") = 0

C10_WitnessAbsent ==
    /\ Done /\ last.err = "" /\ last.response.parsed
    /\ FindAll(last.updatechecks, EOL_ATTRIB) = <<>>
    /\ Len(last.messages) = 1

C10_Witness ==
    /\ Done /\ last.response.parsed
    /\ FindAll(last.updatechecks, EOL_ATTRIB) # <<>>
    /\ ~ParseInt(FindAll(last.updatechecks, EOL_ATTRIB)[1][EOL_ATTRIB]).ok
    /\ last.err = "ValueError"
    /\ Observed # PriorVersion

\* C11: a message that is published ends with " and supported until
\* {Month YYYY}", the month and year of the decoded date, exactly when the
\* response carried an end-of-life date; a day count of 0 is a date like any
\* other (January 1970), and without the attribute the clause is not there.
C11_EolSuffix ==
    (Done /\ last.messages # <<>>)
        => LET carried == FindAll(last.updatechecks, EOL_ATTRIB) # <<>>
               raw == EolAttribute([updatechecks |-> last.updatechecks])
           IN  \A i \in 1..Len(last.messages) :
                 /\ carried => /\ last.response.eol.kind = "date"
                               /\ IsSuffix(SUPPORTED_UNTIL \o StrftimeBY(last.response.eol.date),
                                           last.messages[i])
                 /\ (carried /\ raw = <<"0">>)
                       => IsSuffix(<<" ","a","n","d"," ","s","u","p","p","o","r","t","e","d"," ","u","n","t","i","l"," ","J","a","n","u","a","r","y"," ","1","9","7","0">>, last.messages[i])
                 /\ (carried /\ raw = <<"1","9","0","0","0">>)
                       => IsSuffix(<<" ","a","n","d"," ","s","u","p","p","o","r","t","e","d"," ","u","n","t","i","l"," ","J","a","n","u","a","r","y"," ","2","0","2","2">>, last.messages[i])
                 /\ ~carried => ~Contains(last.messages[i], SUPPORTED_UNTIL)

\* a message is published for a response whose end-of-life day count is 0
C11_Witness ==
    /\ Done
    /\ Len(last.messages) = 1
    /\ FindAll(last.updatechecks, EOL_ATTRIB) # <<>>
    /\ EolAttribute([updatechecks |-> last.updatechecks]) = <<"0">>
    /\ IsSuffix(<<"J","a","n","u","a","r","y"," ","1","9","7","0">>, last.messages[1])


\* C12: the display name in a published message and in a written record is
\* the externally resolved name of the configured descriptor when it has
\* one, and otherwise the first whitespace-separated token of hardware_class
\* lower-cased and then capitalised ("KEVIN D25-A3E-B2A-O8Y" gives "Kevin").
C12_DisplayName ==
    (Done /\ last.messages # <<>>)
        => LET cb == config[last.dev]
               token == Split(cb["hardware_class"])[1]
               expected == IF "name" \in DOMAIN cb THEN cb["name"]
                           ELSE Capitalize(Lower(token))
           IN  /\ \A i \in 1..Len(last.messages) :
                     IsPrefix(expected \o <<" ","u","p","d","a","t","e","d"," ">>, last.messages[i])
               /\ \A i \in 1..Len(last.puts) : Get(last.puts[i], "name") = expected
               /\ cb = DefaultKevin => expected = <<"K","e","v","i","n">>
               /\ cb = DefaultReven => expected = <<"R","e","v","e","n","-","a","n","a","e">>
               /\ "name" \in DOMAIN cb => expected = RecoveryName

\* a message is published and a record written for the default KEVIN
\* descriptor, which has no resolved name
C12_Witness ==
    /\ Done
    /\ config[last.dev] = DefaultKevin
    /\ Len(last.messages) = 1
    /\ Len(last.puts) = 1
    /\ IsPrefix(<<"K","e","v","i","n"," ","u","p","d","a","t","e","d"," ">>, last.messages[1])
    /\ Get(last.puts[1], "name") = <<"K","e","v","i","n">>

\* a message is published for a descriptor that carries a resolved name
C12_WitnessResolved ==
    /\ Done
    /\ "name" \in DOMAIN config[last.dev]
    /\ Len(last.messages) = 1
    /\ IsPrefix(RecoveryName, last.messages[1])


\* C13: version is the ChromeVersion attribute of the first action element,
\* in document order, that carries the attribute; elements without it are
\* passed over, and when no element carries it the version is absent and no
\* error is raised.
C13_VersionExtraction ==
    call.fn = "version"
        => LET a == call.root.actions
               carriers == {i \in 1..Len(a) : VERSION_ATTRIB \in DOMAIN a[i]}
           IN  IF carriers = {} THEN call.result = None
               ELSE \E i \in carriers :
                       /\ \A j \in carriers : i <= j
                       /\ call.result = a[i][VERSION_ATTRIB]
                       /\ call.result # None

\* version is evaluated on a body of two action elements that carry
\* different versions, and gives the one of the first
C13_Witness ==
    /\ call.fn = "version"
    /\ Len(call.root.actions) = 2
    /\ \A i \in 1..2 : VERSION_ATTRIB \in DOMAIN call.root.actions[i]
    /\ call.root.actions[1][VERSION_ATTRIB] # call.root.actions[2][VERSION_ATTRIB]
    /\ call.result = call.root.actions[1][VERSION_ATTRIB]

\* version is evaluated on a body whose first action element has no
\* ChromeVersion and whose second has one
C13_WitnessSkipped ==
    /\ call.fn = "version"
    /\ Len(call.root.actions) = 2
    /\ VERSION_ATTRIB \notin DOMAIN call.root.actions[1]
    /\ VERSION_ATTRIB \in DOMAIN call.root.actions[2]
    /\ call.result = call.root.actions[2][VERSION_ATTRIB]

\* version is evaluated on a body without any ChromeVersion and is absent
C13_WitnessAbsent ==
    /\ call.fn = "version"
    /\ call.root.actions # <<>>
    /\ FindAll(call.root.actions, VERSION_ATTRIB) = <<>>
    /\ call.result = None


\* C14: after a cycle of a device that completes without error, the version
\* persisted under the key of the device (absent when there is no record)
\* is the version the cycle observed, whatever happened in earlier cycles.
C14_PersistedTracksServer ==
    (Done /\ last.err = "")
        => LET now == GetItem(TABLE, Restrict(last.chromebook, KeyAttrs))
               persisted == IF now = {} THEN None
                            ELSE Get(CHOOSE i \in now : TRUE, "version")
           IN  persisted = Observed


\* C16: processing a device leaves its entry of the in-memory catalog
\* CHROMEBOOKS as it was before the iteration, whatever the store read
\* returned, also when there is no record and a change is detected.
C16_CatalogFrame ==
    Done => CHROMEBOOKS[last.dev] = last.chromebook


\* a message that announces the version observed in the iteration
Announces(m) ==
    /\ IsPrefix(ResolveName(last.chromebook) \o UPDATED_FROM, m)
    /\ \/ IsSuffix(TO \o Str(Observed), m)
       \/ Contains(m, TO \o Str(Observed) \o SUPPORTED_UNTIL)

\* the iteration ended with the exception of TOPIC.publish
PublishFailed ==
    Done /\ last.err = "ClientError" /\ last.ops[Len(last.ops)] = "publish"

\* C15: the store records a version under the key of a device only after a
\* notification announcing that version was published successfully earlier
\* in the same cycle; when the publication fails the store is unchanged, and
\* the next cycle of the device that observes the version announces it again.
C15_PublishBeforePersist ==
    /\ (Done /\ Count(last.ops, "put_item") > 0)
          => /\ Len(last.messages) = 1
             /\ Announces(last.messages[1])
             /\ Count(last.ops, "publish") = 1
             /\ Position(last.ops, "publish") < Position(last.ops, "put_item")
             /\ \A i \in 1..Len(last.puts) : Get(last.puts[i], "version") = Observed
    /\ PublishFailed
          => /\ last.messages = <<>>
             /\ last.puts = <<>>
             /\ Count(last.ops, "put_item") = 0
             /\ GetItem(TABLE, Restrict(last.chromebook, KeyAttrs)) = last.stored
    /\ (Done /\ last.prev.status = "publish failed" /\ last.response.parsed
              /\ last.prev.version = Observed /\ last.err \in {"", "ClientError"})
          => /\ Count(last.ops, "publish") = 1
             /\ last.err = "" => /\ Len(last.messages) = 1
                                 /\ Announces(last.messages[1])


\* C17: when the exchange with the update server fails for a device, by a
\* transport error or by a body that cannot be parsed, no notification is
\* published for the device in that cycle and its persisted record is
\* exactly as it was before the cycle.
C17_ExchangeFailure ==
    (Done /\ last.exchange \in {"URLError", "garbage"})
        => /\ last.messages = <<>>
           /\ Count(last.ops, "publish") = 0
           /\ last.puts = <<>>
           /\ Count(last.ops, "put_item") = 0
           /\ GetItem(TABLE, Restrict(last.chromebook, KeyAttrs)) = last.stored

\* the exchange fails for a device whose record holds a version
C17_Witness ==
    /\ Done
    /\ last.exchange \in {"URLError", "garbage"}
    /\ last.err \in {"URLError", "ParseError"}
    /\ last.stored # {}
    /\ IsConcrete(PriorVersion)
    /\ GetItem(TABLE, Restrict(last.chromebook, KeyAttrs)) = last.stored

\* the body of the response cannot be parsed
C17_WitnessParseError ==
    /\ Done
    /\ last.exchange = "garbage"
    /\ last.err = "ParseError"
    /\ last.stored # {}

====
